---- MODULE Spec2Model ----
(***************************************************************************)
(* Distributed substring counting: a coordinator (src/coordinator/app.py)  *)
(* splits a corpus of files over worker endpoints and merges their         *)
(* answers; a worker (src/worker/app.py) counts a pattern in each file     *)
(* with one of three matching algorithms.                                  *)
(*                                                                         *)
(* Strings are sequences of one-character strings.  Python indices are     *)
(* 0-based, TLA+ sequences 1-based: s[i] of the source is s[i+1] here.     *)
(* File identifiers are naturals; their order stands for the order of the  *)
(* path strings.                                                           *)
(***************************************************************************)
EXTENDS Integers, Sequences, FiniteSets, TLC

VARIABLES
    text,          \* matcher: the text body handed to the algorithms
    pattern,       \* matcher: the pattern handed to the algorithms
    counted,       \* matcher: algorithm name -> count it returned (partial function)
    BATCH,         \* coordinator configuration: BATCH_SIZE
    CORPUS,        \* coordinator configuration: the sorted list of corpus files
    WORKER_URLS,   \* coordinator configuration: the endpoint pool
    sliced,        \* partitioner: the result of a slice_corpus call
    ALGO,          \* worker configuration: SEARCH_ALGORITHM
    disk,          \* worker: path -> [ok, data], the files the worker can open
    wreq,          \* worker: the JSON body of the POST /search being answered
    wresp,         \* worker: the response to it (status 0: none yet)
    aggregated_hits, \* aggregator: the hit records collected from the calls
    merged,        \* aggregator: the response built from them (status 0: none yet)
    MAX_PARALLEL,  \* coordinator configuration: PARALLEL_CALLS
    worker_cycle,  \* coordinator: index into WORKER_URLS of the next endpoint
    queue,         \* coordinator: the executor's FIFO of submitted calls <<r, i>>
    req,           \* coordinator: request -> state of its search() handler
    metrics        \* coordinator: the counters and the in-flight gauge

matchVars == <<text, pattern, counted>>
configVars == <<BATCH, CORPUS, WORKER_URLS>>
sliceVars == <<sliced>>
workerVars == <<ALGO, disk, wreq, wresp>>
aggVars == <<aggregated_hits, merged>>
coordVars == <<MAX_PARALLEL, worker_cycle, queue, req, metrics>>

vars == <<matchVars, configVars, sliceVars, workerVars, aggVars, coordVars>>

\* What no step of the coordinator changes.
fixedVars == <<configVars, MAX_PARALLEL, matchVars, sliceVars, workerVars, aggVars>>

\* ------------------------------------------------------------------ bounds
MaxTextLen == 5
MaxPatLen == 3
MaxFiles == 7
MaxBatch == 3
MaxWorkers == 3
MaxContentLen == 2
MaxQueryLen == 2
MaxReqFiles == 2
MaxRecords == 4
MaxHitFiles == 3
MaxHitCount == 2
MaxReq == 2
MaxCorpus == 2
MaxChunk == 2
MaxPool == 2
MaxThreads == 2

Alphabet == {"a", "b", "c"}

\* ------------------------------------------------------------------ helpers
Max2(x, y) == IF x >= y THEN x ELSE y

SetMax(S) == CHOOSE x \in S : \A y \in S : y <= x

StringsUpTo(A, n) == UNION {[1..k -> A] : k \in 0..n}

\* Python's s[j]: a negative index counts from the end.
PyIndex(s, j) == IF j >= 0 THEN s[j + 1] ELSE s[Len(s) + j + 1]

\* Python's s[i : i + m], clipped at the end of s.
PySlice(s, i, m) == SubSeq(s, i + 1, IF i + m <= Len(s) THEN i + m ELSE Len(s))

\* ------------------------------------------------------------------ worker: matching algorithms
RECURSIVE bf_loop(_, _, _, _)
bf_loop(txt, pat, i, hits) ==
    IF i >= Len(txt) - Len(pat) + 1
    THEN hits
    ELSE bf_loop(txt, pat, i + 1,
                 IF PySlice(txt, i, Len(pat)) = pat THEN hits + 1 ELSE hits)

brute_force(txt, pat) ==
    IF pat = <<>> THEN 0 ELSE bf_loop(txt, pat, 0, 0)

\* last.get(ch, -1): the last index of ch in the pattern, -1 when absent.
last_get(pat, ch) ==
    LET S == {idx \in 0..(Len(pat) - 1) : pat[idx + 1] = ch}
    IN  IF S = {} THEN -1 ELSE SetMax(S)

\* The inner while: compare right to left, return k where it stops.
RECURSIVE bm_compare(_, _, _, _)
bm_compare(txt, pat, j, k) ==
    IF k >= 0 /\ PyIndex(txt, j) = PyIndex(pat, k)
    THEN bm_compare(txt, pat, j - 1, k - 1)
    ELSE k

bm_skip_ignores_last(pat, k, ch) == Max2(1, k + 1)

bm_skip(pat, k, ch) == Max2(1, k - last_get(pat, ch))

RECURSIVE bm_loop(_, _, _, _)
bm_loop(txt, pat, i, hits) ==
    IF i >= Len(txt)
    THEN hits
    ELSE LET k == bm_compare(txt, pat, i, Len(pat) - 1)
         IN  IF k = -1
             THEN bm_loop(txt, pat, i + Len(pat), hits + 1)
             ELSE bm_loop(txt, pat, i + bm_skip(pat, k, PyIndex(txt, i)), hits)

boyer_moore(txt, pat) ==
    IF Len(pat) = 0 THEN 0 ELSE bm_loop(txt, pat, Len(pat) - 1, 0)

\* while length and pattern[i] != pattern[length]: length = lps[length - 1]
RECURSIVE lps_fallback(_, _, _, _)
lps_fallback(pat, lps, i, length) ==
    IF length # 0 /\ pat[i + 1] # pat[length + 1]
    THEN lps_fallback(pat, lps, i, lps[length])
    ELSE length

RECURSIVE lps_loop(_, _, _, _)
lps_loop(pat, lps, i, length) ==
    IF i >= Len(pat)
    THEN lps
    ELSE LET l1 == lps_fallback(pat, lps, i, length)
         IN  IF pat[i + 1] = pat[l1 + 1]
             THEN lps_loop(pat, [lps EXCEPT ![i + 1] = l1 + 1], i + 1, l1 + 1)
             ELSE lps_loop(pat, lps, i + 1, l1)

kmp_lps(pat) == lps_loop(pat, [i \in 1..Len(pat) |-> 0], 1, 0)

\* while j and ch != pattern[j]: j = lps[j - 1]
RECURSIVE kmp_fallback(_, _, _, _)
kmp_fallback(pat, lps, ch, j) ==
    IF j # 0 /\ ch # pat[j + 1]
    THEN kmp_fallback(pat, lps, ch, lps[j])
    ELSE j

RECURSIVE kmp_scan(_, _, _, _, _, _)
kmp_scan(txt, pat, lps, pos, j, hits) ==
    IF pos >= Len(txt)
    THEN hits
    ELSE LET ch == txt[pos + 1]
             j1 == kmp_fallback(pat, lps, ch, j)
         IN  IF ch = pat[j1 + 1]
             THEN IF j1 + 1 = Len(pat)
                  THEN kmp_scan(txt, pat, lps, pos + 1, lps[j1 + 1], hits + 1)
                  ELSE kmp_scan(txt, pat, lps, pos + 1, j1 + 1, hits)
             ELSE kmp_scan(txt, pat, lps, pos + 1, j1, hits)

kmp(txt, pat) ==
    IF pat = <<>> THEN 0 ELSE kmp_scan(txt, pat, kmp_lps(pat), 0, 0, 0)

\* ALGORITHMS.get(ALGO, brute_force)
ALGORITHMS == {"brute-force", "boyer-moore", "kmp"}

SEARCH_FN(algo, txt, pat) ==
    CASE algo = "boyer-moore" -> boyer_moore(txt, pat)
      [] algo = "kmp" -> kmp(txt, pat)
      [] OTHER -> brute_force(txt, pat)

\* ------------------------------------------------------------------ worker: file scanner
\* str.lower() on the characters the model uses.
LowerChar(ch) == IF ch = "A" THEN "a" ELSE ch

Lower(s) == [i \in 1..Len(s) |-> LowerChar(s[i])]

\* path.open / f.read raise for a path that is missing or unreadable; the
\* except clause turns that into 0.
count_in_file(algo, filesys, path, pat) ==
    IF path \in DOMAIN filesys /\ filesys[path].ok
    THEN SEARCH_FN(algo, Lower(filesys[path].data), pat)
    ELSE 0

RECURSIVE SumSeq(_)
SumSeq(ns) == IF ns = <<>> THEN 0 ELSE Head(ns) + SumSeq(Tail(ns))

\* [{"file": p, "count": c} for p, c in zip(files, counts) if c > 0]
RECURSIVE zip_positive(_, _)
zip_positive(files, counts) ==
    IF files = <<>> \/ counts = <<>> THEN <<>>
    ELSE (IF Head(counts) > 0
          THEN <<[file |-> Head(files), count |-> Head(counts)]>>
          ELSE <<>>) \o zip_positive(Tail(files), Tail(counts))

NoResponse == [status |-> 0, error |-> FALSE, hits |-> <<>>, total_hits |-> 0]

ErrorResponse(code) ==
    [status |-> code, error |-> TRUE, hits |-> <<>>, total_hits |-> 0]

OkResponse(hits, total) ==
    [status |-> 200, error |-> FALSE, hits |-> hits, total_hits |-> total]

batch_search_aborts(algo, filesys, q, files) ==
    LET query == Lower(q)
    IN  IF query = <<>> \/ files = <<>>
        THEN ErrorResponse(400)
        ELSE IF \E i \in 1..Len(files) :
                    files[i] \notin DOMAIN filesys \/ ~filesys[files[i]].ok
        THEN ErrorResponse(500)
        ELSE LET counts == [i \in 1..Len(files) |->
                               count_in_file(algo, filesys, files[i], query)]
             IN  OkResponse(zip_positive(files, counts), SumSeq(counts))

\* The handler of POST /search, for the body {"q": q, "files": files}.
batch_search(algo, filesys, q, files) ==
    LET query == Lower(q)
    IN  IF query = <<>> \/ files = <<>>
        THEN ErrorResponse(400)
        ELSE LET counts == [i \in 1..Len(files) |->
                               count_in_file(algo, filesys, files[i], query)]
             IN  OkResponse(zip_positive(files, counts), SumSeq(counts))

\* ------------------------------------------------------------------ coordinator: partitioner
\* [corpus[i : i + batch] for i in range(0, len(corpus), batch)]
FixedChunks(batch, corpus) ==
    [t \in 1..((Len(corpus) + batch - 1) \div batch) |->
        PySlice(corpus, (t - 1) * batch, batch)]

\* corpus[i::n]: the elements at indices i, i + n, i + 2n, ...
PyStride(s, i, n) ==
    LET cnt == IF i >= Len(s) THEN 0 ELSE ((Len(s) - 1 - i) \div n) + 1
    IN  [k \in 1..cnt |-> s[i + (k - 1) * n + 1]]

\* [corpus[i::n_workers] for i in range(n_workers)]
RoundRobin(corpus, n_workers) ==
    [p \in 1..n_workers |-> PyStride(corpus, p - 1, n_workers)]

slice_corpus_contiguous(batch, corpus, n_workers) ==
    IF batch > 0
    THEN FixedChunks(batch, corpus)
    ELSE [p \in 1..n_workers |->
             PySlice(corpus, (p - 1) * ((Len(corpus) + n_workers - 1) \div n_workers),
                     (Len(corpus) + n_workers - 1) \div n_workers)]

slice_corpus_drops_tail(batch, corpus, n_workers) ==
    IF batch > 0
    THEN [t \in 1..(Len(corpus) \div batch) |->
             PySlice(corpus, (t - 1) * batch, batch)]
    ELSE RoundRobin(corpus, n_workers)

slice_corpus(batch, corpus, n_workers) ==
    IF batch > 0
    THEN FixedChunks(batch, corpus)
    ELSE RoundRobin(corpus, n_workers)

\* ------------------------------------------------------------------ coordinator: aggregator
\* aggregated_hits.extend(data.get("hits", []))
extend_hits_replaces(collected, data) == data.hits

RECURSIVE ConcatSeqs(_)
ConcatSeqs(ss) == IF ss = <<>> THEN <<>> ELSE Head(ss) \o ConcatSeqs(Tail(ss))

\* As if aggregated_hits were one list of the module, shared by the handlers.
extend_hits_shared(collected, data) ==
    ConcatSeqs([r \in 1..Len(req) |-> req[r].collected]) \o data.hits

extend_hits(collected, data) == collected \o data.hits

\* grouped[item["file"]] = grouped.get(item["file"], 0) + item["count"];
\* grouped is a dict: a list of (file, count) items in insertion order.
RECURSIVE group_hits(_, _)
group_hits(items, grouped) ==
    IF items = <<>> THEN grouped
    ELSE LET item == Head(items)
             at == {i \in 1..Len(grouped) : grouped[i].file = item.file}
         IN  IF at = {}
             THEN group_hits(Tail(items),
                             Append(grouped, [file |-> item.file,
                                              count |-> 0 + item.count]))
             ELSE group_hits(Tail(items),
                             [grouped EXCEPT ![CHOOSE i \in at : TRUE].count =
                                                 @ + item.count])

\* key=lambda x: (-x[1], x[0]), compared as tuples.
sort_key_less_count_only(x, y) == (0 - x.count) < (0 - y.count)

sort_key_less(x, y) ==
    \/ (0 - x.count) < (0 - y.count)
    \/ (0 - x.count) = (0 - y.count) /\ x.file < y.file

\* sorted() is stable: an item goes after every item it is not less than.
RECURSIVE insert_sorted(_, _)
insert_sorted(x, out) ==
    IF out = <<>> THEN <<x>>
    ELSE IF sort_key_less(x, Head(out))
         THEN <<x>> \o out
         ELSE <<Head(out)>> \o insert_sorted(x, Tail(out))

RECURSIVE sorted_items(_, _)
sorted_items(items, out) ==
    IF items = <<>> THEN out
    ELSE sorted_items(Tail(items), insert_sorted(Head(items), out))

\* Lines 122-135: group, total, sort, answer 200.
aggregate(collected) ==
    LET grouped == group_hits(collected, <<>>)
        total_hits == SumSeq([i \in 1..Len(grouped) |-> grouped[i].count])
        hits_sorted == sorted_items(grouped, <<>>)
    IN  OkResponse(hits_sorted, total_hits)

\* ------------------------------------------------------------------ coordinator: request handling
\* str.strip() for the one whitespace character the model uses.
RECURSIVE lstrip(_)
lstrip(s) == IF s # <<>> /\ Head(s) = " " THEN lstrip(Tail(s)) ELSE s

RECURSIVE rstrip(_)
rstrip(s) ==
    IF s # <<>> /\ s[Len(s)] = " " THEN rstrip(SubSeq(s, 1, Len(s) - 1)) ELSE s

Strip(s) == rstrip(lstrip(s))

observe_start(m) == [m EXCEPT !.reqs = @ + 1, !.inflight = @ + 1]

observe_end(m, error) ==
    [m EXCEPT !.errors = IF error THEN @ + 1 ELSE @, !.inflight = @ - 1]

IdleRequest ==
    [pc |-> "idle", q |-> <<>>, chunks |-> <<>>, futs |-> <<>>,
     collected |-> <<>>, resp |-> NoResponse]

Running ==
    {ri \in UNION {{<<r, i>> : i \in 1..Len(req[r].futs)} : r \in DOMAIN req} :
        req[ri[1]].futs[ri[2]].state = "running"}

\* The two checks that open the handler: 0 when the query is accepted.
reject_status_corpus_first(q) ==
    IF CORPUS = <<>> THEN 500 ELSE IF q = <<>> THEN 400 ELSE 0

reject_status(q) ==
    IF q = <<>> THEN 400 ELSE IF CORPUS = <<>> THEN 500 ELSE 0

\* GET /search?q=raw up to the dispatch loop.  A missing q reads as "".
Search(r) ==
    /\ req[r].pc = "idle"
    /\ \E raw \in {<<>>, <<" ">>, <<"A">>, <<" ", "A", " ">>} :
          LET q == Strip(raw)
              chunks == slice_corpus(BATCH, CORPUS, Len(WORKER_URLS))
          IN  IF reject_status(q) # 0
              THEN /\ req' = [req EXCEPT ![r].pc = "done", ![r].q = q,
                                         ![r].resp = ErrorResponse(reject_status(q))]
                   /\ UNCHANGED metrics
              ELSE /\ metrics' = observe_start(metrics)
                   /\ IF chunks = <<>>
                      THEN req' = [req EXCEPT ![r].pc = "done", ![r].q = q,
                                              ![r].resp = OkResponse(<<>>, 0)]
                      ELSE req' = [req EXCEPT ![r].pc = "dispatch", ![r].q = q,
                                              ![r].chunks = chunks]
    /\ UNCHANGED <<worker_cycle, queue, fixedVars>>

\* next(worker_cycle) moves the cursor of the cycle one endpoint on.
next_cycle_stays(cursor, n) == cursor

next_cycle(cursor, n) == (cursor + 1) % n

\* One iteration of the dispatch loop: next(worker_cycle), executor.submit.
\* next() of a cycle over an empty pool raises StopIteration, which the
\* handler's except clause answers with 500.
Submit(r) ==
    /\ req[r].pc = "dispatch"
    /\ IF WORKER_URLS = <<>>
       THEN /\ req' = [req EXCEPT ![r].pc = "done",
                                  ![r].resp = ErrorResponse(500)]
            /\ metrics' = observe_end(metrics, TRUE)
            /\ UNCHANGED <<worker_cycle, queue, fixedVars>>
       ELSE LET i == Len(req[r].futs) + 1
                fut == [url |-> WORKER_URLS[worker_cycle + 1],
                        files |-> req[r].chunks[i],
                        state |-> "queued", hits |-> <<>>, seen |-> FALSE]
            IN  /\ worker_cycle' = next_cycle(worker_cycle, Len(WORKER_URLS))
                /\ queue' = Append(queue, <<r, i>>)
                /\ req' = [req EXCEPT
                              ![r].futs = Append(@, fut),
                              ![r].pc = IF i = Len(req[r].chunks)
                                        THEN "collect" ELSE "dispatch"]
                /\ UNCHANGED metrics
    /\ UNCHANGED fixedVars

\* ThreadPoolExecutor(max_workers=MAX_PARALLEL): at most that many threads.
pool_unbounded == TRUE

pool_never_free == FALSE

pool_has_free_thread == Cardinality(Running) < MAX_PARALLEL

\* A free pool thread takes the oldest submitted call.
StartCall ==
    /\ queue # <<>>
    /\ pool_has_free_thread
    /\ LET r == Head(queue)[1]
           i == Head(queue)[2]
       IN  req' = [req EXCEPT ![r].futs[i].state = "running"]
    /\ queue' = Tail(queue)
    /\ UNCHANGED <<worker_cycle, metrics, fixedVars>>

\* call_worker gets the worker's answer: raise_for_status raises on a
\* status that is not a success, otherwise the JSON body is the result.
CallReturns(r, i) ==
    /\ req[r].futs[i].state = "running"
    /\ LET ans == batch_search(ALGO, disk, req[r].q, req[r].futs[i].files)
       IN  req' = [req EXCEPT
                     ![r].futs[i].state = IF ans.status = 200 THEN "done"
                                          ELSE "raised",
                     ![r].futs[i].hits = ans.hits]
    /\ UNCHANGED <<worker_cycle, queue, metrics, fixedVars>>

\* session.post raises: a network error, or the timeout expired.
CallFails(r, i) ==
    /\ req[r].futs[i].state = "running"
    /\ req' = [req EXCEPT ![r].futs[i].state = "raised"]
    /\ UNCHANGED <<worker_cycle, queue, metrics, fixedVars>>

\* data = fut.result(): re-raises the exception the call ended with.
result_swallows(fut) == FALSE

result_raises(fut) == fut.state = "raised"

\* One iteration of the as_completed loop, and after the last one the
\* aggregation and the 200 answer.  as_completed yields the futures that
\* are finished in no fixed order; fut.result() re-raises a call's
\* exception, which the except clause answers with 500.
Collect(r) ==
    /\ req[r].pc = "collect"
    /\ \E i \in 1..Len(req[r].futs) :
          LET fut == req[r].futs[i]
              collected == extend_hits(req[r].collected, fut)
              last == \A j \in 1..Len(req[r].futs) :
                          j # i => req[r].futs[j].seen
          IN  /\ fut.state \in {"done", "raised"}
              /\ ~fut.seen
              /\ IF result_raises(fut)
                 THEN /\ req' = [req EXCEPT ![r].futs[i].seen = TRUE,
                                            ![r].pc = "done",
                                            ![r].resp = ErrorResponse(500)]
                      /\ metrics' = observe_end(metrics, TRUE)
                 ELSE IF last
                 THEN /\ req' = [req EXCEPT ![r].futs[i].seen = TRUE,
                                            ![r].collected = collected,
                                            ![r].pc = "done",
                                            ![r].resp = aggregate(collected)]
                      /\ metrics' = observe_end(metrics, FALSE)
                 ELSE /\ req' = [req EXCEPT ![r].futs[i].seen = TRUE,
                                            ![r].collected = collected]
                      /\ UNCHANGED metrics
    /\ UNCHANGED <<worker_cycle, queue, fixedVars>>

\* ------------------------------------------------------------------ idle components
MatchIdle == text = <<>> /\ pattern = <<>> /\ counted = << >>

SliceIdle == sliced = [called |-> FALSE, parts |-> <<>>]

ConfigIdle == BATCH = 0 /\ CORPUS = <<>> /\ WORKER_URLS = <<>>

AggIdle == aggregated_hits = <<>> /\ merged = NoResponse

CoordIdle ==
    /\ MAX_PARALLEL = 1
    /\ worker_cycle = 0
    /\ queue = <<>>
    /\ req = << >>
    /\ metrics = [reqs |-> 0, errors |-> 0, inflight |-> 0]

WorkerIdle ==
    /\ ALGO = "brute-force"
    /\ disk = << >>
    /\ wreq = [q |-> <<>>, files |-> <<>>]
    /\ wresp = NoResponse

\* ------------------------------------------------------------------ matcher specification
InitMatch ==
    /\ text \in StringsUpTo(Alphabet, MaxTextLen)
    /\ pattern \in StringsUpTo(Alphabet, MaxPatLen)
    /\ counted = << >>
    /\ ConfigIdle /\ SliceIdle /\ WorkerIdle /\ AggIdle /\ CoordIdle

Record(algo, n) ==
    /\ algo \notin DOMAIN counted
    /\ counted' = [a \in DOMAIN counted \cup {algo} |->
                      IF a = algo THEN n ELSE counted[a]]
    /\ UNCHANGED <<text, pattern, configVars, sliceVars, workerVars,
                   aggVars, coordVars>>

CallBruteForce == Record("brute-force", brute_force(text, pattern))

CallBoyerMoore == Record("boyer-moore", boyer_moore(text, pattern))

CallKmp == Record("kmp", kmp(text, pattern))

NextMatch == CallBruteForce \/ CallBoyerMoore \/ CallKmp

SpecMatch == InitMatch /\ [][NextMatch]_vars

\* ------------------------------------------------------------------ reference count
\* Left-to-right greedy non-overlapping count: the leftmost occurrence at or
\* after pos is counted and the scan resumes right after its last character.
Occurs(txt, pat, i) ==
    /\ i + Len(pat) <= Len(txt)
    /\ SubSeq(txt, i + 1, i + Len(pat)) = pat

RECURSIVE GreedyFrom(_, _, _)
GreedyFrom(txt, pat, pos) ==
    LET S == {i \in pos..(Len(txt) - Len(pat)) : Occurs(txt, pat, i)}
    IN  IF S = {} THEN 0
        ELSE LET i == CHOOSE x \in S : \A y \in S : x <= y
             IN  1 + GreedyFrom(txt, pat, i + Len(pat))

GreedyCount(txt, pat) == IF pat = <<>> THEN 0 ELSE GreedyFrom(txt, pat, 0)

\* ------------------------------------------------------------------ partitioner specification
\* sorted(glob.glob(...)): a strictly increasing list of distinct files.
RECURSIVE SortedSeq(_)
SortedSeq(S) ==
    IF S = {} THEN <<>>
    ELSE LET x == CHOOSE a \in S : \A b \in S : a <= b
         IN  <<x>> \o SortedSeq(S \ {x})

Corpora(n) == {SortedSeq(S) : S \in SUBSET (1..n)}

Pools(n) == {[i \in 1..k |-> i] : k \in 0..n}

InitSlice ==
    /\ BATCH \in 0..MaxBatch
    /\ CORPUS \in Corpora(MaxFiles)
    /\ WORKER_URLS \in Pools(MaxWorkers)
    /\ SliceIdle /\ MatchIdle /\ WorkerIdle /\ AggIdle /\ CoordIdle

CallSliceCorpus ==
    /\ ~sliced.called
    /\ sliced' = [called |-> TRUE,
                  parts |-> slice_corpus(BATCH, CORPUS, Len(WORKER_URLS))]
    /\ UNCHANGED <<matchVars, configVars, workerVars, aggVars, coordVars>>

NextSlice == CallSliceCorpus

SpecSlice == InitSlice /\ [][NextSlice]_vars

\* ------------------------------------------------------------------ worker specification
WorkerAlphabet == {"a", "A"}

\* The paths on the worker's disk, and one more that a request may name.
DiskPaths == {1, 2}

RequestPaths == DiskPaths \cup {3}

DiskFiles ==
    {[ok |-> FALSE, data |-> <<>>]}
        \cup {[ok |-> TRUE, data |-> d] : d \in StringsUpTo(WorkerAlphabet, MaxContentLen)}

InitWorker ==
    /\ ALGO \in ALGORITHMS \cup {"unknown"}
    /\ disk \in [DiskPaths -> DiskFiles]
    /\ wreq = [q |-> <<>>, files |-> <<>>]
    /\ wresp = NoResponse
    /\ MatchIdle /\ ConfigIdle /\ SliceIdle /\ AggIdle /\ CoordIdle

PostSearch ==
    /\ wresp.status = 0
    /\ \E q \in StringsUpTo(WorkerAlphabet, MaxQueryLen),
          files \in StringsUpTo(RequestPaths, MaxReqFiles) :
          /\ wreq' = [q |-> q, files |-> files]
          /\ wresp' = batch_search(ALGO, disk, q, files)
    /\ UNCHANGED <<ALGO, disk, matchVars, configVars, sliceVars,
                   aggVars, coordVars>>

NextWorker == PostSearch

SpecWorker == InitWorker /\ [][NextWorker]_vars

\* ------------------------------------------------------------------ aggregator specification
HitRecords == [file : 1..MaxHitFiles, count : 1..MaxHitCount]

InitAgg ==
    /\ aggregated_hits \in StringsUpTo(HitRecords, MaxRecords)
    /\ merged = NoResponse
    /\ MatchIdle /\ ConfigIdle /\ SliceIdle /\ WorkerIdle /\ CoordIdle

CallAggregate ==
    /\ merged.status = 0
    /\ merged' = aggregate(aggregated_hits)
    /\ UNCHANGED <<aggregated_hits, matchVars, configVars, sliceVars,
                   workerVars, coordVars>>

NextAgg == CallAggregate

SpecAgg == InitAgg /\ [][NextAgg]_vars

\* ------------------------------------------------------------------ coordinator specification
\* What a corpus file may hold: nothing readable, no match, one, two.
CorpusFiles ==
    {[ok |-> FALSE, data |-> <<>>], [ok |-> TRUE, data |-> <<"b">>],
     [ok |-> TRUE, data |-> <<"a">>], [ok |-> TRUE, data |-> <<"A", "b", "a">>]}

Init ==
    /\ BATCH \in 0..MaxChunk
    /\ CORPUS \in {[i \in 1..k |-> i] : k \in 0..MaxCorpus}
    /\ WORKER_URLS \in Pools(MaxPool)
    /\ MAX_PARALLEL \in 1..MaxThreads
    /\ ALGO = "brute-force"
    /\ disk \in [{CORPUS[i] : i \in 1..Len(CORPUS)} -> CorpusFiles]
    /\ wreq = [q |-> <<>>, files |-> <<>>]
    /\ wresp = NoResponse
    /\ worker_cycle = 0
    /\ queue = <<>>
    /\ req = [r \in 1..MaxReq |-> IdleRequest]
    /\ metrics = [reqs |-> 0, errors |-> 0, inflight |-> 0]
    /\ MatchIdle /\ SliceIdle /\ AggIdle

Next ==
    \/ \E r \in DOMAIN req : Search(r)
    \/ \E r \in DOMAIN req : Submit(r)
    \/ StartCall
    \/ \E r \in DOMAIN req : \E i \in 1..Len(req[r].futs) : CallReturns(r, i)
    \/ \E r \in DOMAIN req : \E i \in 1..Len(req[r].futs) : CallFails(r, i)
    \/ \E r \in DOMAIN req : Collect(r)

Spec == Init /\ [][Next]_vars

\* The end of a call, by an answer or by an error or timeout.
CallEnds(r, i) ==
    /\ i \in 1..Len(req[r].futs)
    /\ (CallReturns(r, i) \/ CallFails(r, i))

\* The most calls one query dispatches: a partition per endpoint or per file.
MaxCalls == Max2(MaxPool, MaxCorpus)

\* Scheduling: a handler thread that can take its next step takes it, a free
\* pool thread takes the oldest waiting call, and every call that was
\* started ends (the worker answers, or session.post raises at the latest
\* when the timeout expires).  Nothing obliges a client to send a query.
Fairness ==
    /\ \A r \in 1..MaxReq : WF_vars(Submit(r)) /\ WF_vars(Collect(r))
    /\ WF_vars(StartCall)
    /\ \A r \in 1..MaxReq : \A i \in 1..MaxCalls : WF_vars(CallEnds(r, i))

\* The contents of the files decide the counts, not the scheduling: the fair
\* runs start with one content, or one read failure, shared by every file.
InitFair ==
    /\ Init
    /\ \E f \in CorpusFiles : \A p \in DOMAIN disk : disk[p] = f

FairSpec == InitFair /\ [][Next]_vars /\ Fairness

\* ------------------------------------------------------------------ matcher claims
MatchInputNonEmpty == text # <<>> /\ pattern # <<>>

\* C1: for every non-empty pattern and text the three algorithms return the
\* same count.
C1_AlgorithmsAgree ==
    (MatchInputNonEmpty /\ DOMAIN counted = ALGORITHMS) =>
        /\ counted["brute-force"] = counted["boyer-moore"]
        /\ counted["boyer-moore"] = counted["kmp"]

\* C8: boyer_moore returns the greedy left-to-right non-overlapping count:
\* no shift skips an occurrence and no occurrence is counted twice.
C8_BoyerMooreGreedy ==
    "boyer-moore" \in DOMAIN counted =>
        counted["boyer-moore"] = GreedyCount(text, pattern)

\* A mismatch with a shift of 2 (text[1] = "c" is absent from the pattern)
\* followed by a match.
C8_Witness ==
    /\ text = <<"c", "c", "a", "b">> /\ pattern = <<"a", "b">>
    /\ "boyer-moore" \in DOMAIN counted /\ counted["boyer-moore"] = 1

\* C9: kmp returns the greedy left-to-right non-overlapping count.
C9_KmpGreedy ==
    "kmp" \in DOMAIN counted => counted["kmp"] = GreedyCount(text, pattern)

\* C10: brute_force returns the greedy left-to-right non-overlapping count,
\* and 0 when the pattern is empty or longer than the text.
C10_BruteForceGreedy ==
    "brute-force" \in DOMAIN counted =>
        /\ counted["brute-force"] = GreedyCount(text, pattern)
        /\ (pattern = <<>> \/ Len(pattern) > Len(text)) => counted["brute-force"] = 0

\* ------------------------------------------------------------------ worker claims
FileCount(path) ==
    IF path \in DOMAIN disk /\ disk[path].ok
    THEN SEARCH_FN(ALGO, Lower(disk[path].data), Lower(wreq.q))
    ELSE 0

Unreadable(path) == path \notin DOMAIN disk \/ ~disk[path].ok

\* C7: a request with a non-empty query and a non-empty file list is answered
\* 200 whatever files are unreadable; the hits are, in request order, exactly
\* the requested files with a positive count, each with its count; unreadable
\* files are not among them; total_hits is the sum over all requested files,
\* unreadable ones counting 0.
C7_FileScanner ==
    (wresp.status # 0 /\ wreq.q # <<>> /\ wreq.files # <<>>) =>
        LET pos == {i \in 1..Len(wreq.files) : FileCount(wreq.files[i]) > 0}
            nth(k) == CHOOSE i \in pos : Cardinality({j \in pos : j <= i}) = k
        IN  /\ wresp.status = 200
            /\ Len(wresp.hits) = Cardinality(pos)
            /\ \A k \in 1..Len(wresp.hits) :
                   /\ wresp.hits[k].file = wreq.files[nth(k)]
                   /\ wresp.hits[k].count = FileCount(wreq.files[nth(k)])
                   /\ wresp.hits[k].count > 0
                   /\ ~Unreadable(wresp.hits[k].file)
            /\ wresp.total_hits =
                   SumSeq([i \in 1..Len(wreq.files) |-> FileCount(wreq.files[i])])

\* One batch with an unreadable (or missing) file and a file that has a hit.
C7_Witness ==
    /\ wresp.status = 200
    /\ \E i, j \in 1..Len(wreq.files) :
           /\ Unreadable(wreq.files[i])
           /\ FileCount(wreq.files[j]) > 0
    /\ Len(wresp.hits) = 1 /\ wresp.total_hits > 0

\* ------------------------------------------------------------------ aggregator claims
CountSum(records, f) ==
    SumSeq([i \in 1..Len(records) |->
               IF records[i].file = f THEN records[i].count ELSE 0])

TotalCount(records) == SumSeq([i \in 1..Len(records) |-> records[i].count])

\* C5: the merged hits hold each file at most once, a file is listed exactly
\* when records were returned for it and then with the sum of their counts,
\* and each entry precedes the next in the order "count descending, then
\* file identifier ascending".
C5_MergeAndOrder ==
    merged.status # 0 =>
        LET hits == merged.hits
        IN  /\ \A j, k \in 1..Len(hits) : hits[j].file = hits[k].file => j = k
            /\ \A k \in 1..Len(hits) :
                   hits[k].count = CountSum(aggregated_hits, hits[k].file)
            /\ \A i \in 1..Len(aggregated_hits) :
                   \E k \in 1..Len(hits) : hits[k].file = aggregated_hits[i].file
            /\ \A k \in 1..(Len(hits) - 1) :
                   \/ hits[k].count > hits[k + 1].count
                   \/ /\ hits[k].count = hits[k + 1].count
                      /\ hits[k].file < hits[k + 1].file

\* A file returned twice whose sum ties with another file returned before it
\* with a larger identifier.
C5_Witness ==
    /\ merged.status = 200
    /\ aggregated_hits = <<[file |-> 3, count |-> 2], [file |-> 1, count |-> 1],
                           [file |-> 2, count |-> 1], [file |-> 1, count |-> 1]>>
    /\ merged.hits = <<[file |-> 1, count |-> 2], [file |-> 3, count |-> 2],
                       [file |-> 2, count |-> 1]>>

\* ------------------------------------------------------------------ coordinator claims
Raised(r) == {i \in 1..Len(req[r].futs) : req[r].futs[i].state = "raised"}

Returned(r) == {i \in 1..Len(req[r].futs) : req[r].futs[i].state = "done"}

\* C2: a query one of whose dispatched calls failed is answered 500 with an
\* error body and no hits, never 200, whichever calls completed before.
C2_FailFast ==
    \A r \in DOMAIN req :
        Raised(r) # {} =>
            /\ req[r].resp.status # 200
            /\ req[r].pc = "done" =>
                   /\ req[r].resp.status = 500
                   /\ req[r].resp.error
                   /\ req[r].resp.hits = <<>>

\* One call returned hits and was collected, the other failed afterwards.
C2_Witness ==
    \E r \in DOMAIN req :
        /\ req[r].pc = "done" /\ req[r].resp.status = 500
        /\ Len(req[r].futs) = 2
        /\ \E i \in Returned(r) :
               req[r].futs[i].seen /\ req[r].futs[i].hits # <<>>
        /\ Raised(r) # {}

\* C6: in a 200 response total_hits is the sum of the counts of its hits
\* list and the sum of the counts of every hit record any call of the query
\* returned.
C6_CountConservation ==
    \A r \in DOMAIN req :
        req[r].resp.status = 200 =>
            /\ req[r].resp.total_hits = TotalCount(req[r].resp.hits)
            /\ req[r].resp.total_hits =
                   SumSeq([i \in 1..Len(req[r].futs) |->
                              TotalCount(req[r].futs[i].hits)])

\* Two calls, each returning a hit.
C6_Witness ==
    \E r \in DOMAIN req :
        /\ req[r].resp.status = 200
        /\ Len(req[r].futs) = 2
        /\ \A i \in 1..2 : req[r].futs[i].hits # <<>>
        /\ req[r].resp.total_hits >= 3

\* C11: the calls in flight, over all requests, never exceed MAX_PARALLEL;
\* a call beyond the limit is in the executor's queue, not running.
C11_BoundedDispatch ==
    /\ Cardinality(Running) <= MAX_PARALLEL
    /\ \A k \in 1..Len(queue) :
           req[queue[k][1]].futs[queue[k][2]].state = "queued"

\* The pool is full with calls of two requests and a call waits.
C11_Witness ==
    /\ Cardinality(Running) = MAX_PARALLEL
    /\ queue # <<>>
    /\ {ri[1] : ri \in Running} = DOMAIN req

Dispatched == SumSeq([r \in 1..Len(req) |-> Len(req[r].futs)])

\* C12: the k-th call the process dispatches, counted from 0 over all
\* partitions of all queries, goes to endpoint k mod pool size: a step that
\* adds a call to a request gives it the endpoint at the number of calls
\* dispatched so far, modulo the pool size.
C12_RoundRobin ==
    [][\A r \in DOMAIN req :
          Len(req'[r].futs) = Len(req[r].futs) + 1 =>
              req'[r].futs[Len(req'[r].futs)].url =
                  WORKER_URLS[(Dispatched % Len(WORKER_URLS)) + 1]]_vars

\* The cursor was not reset: a query's first partition went to the second
\* endpoint, and the cursor has wrapped around.
C12_Witness ==
    /\ Len(WORKER_URLS) = 2 /\ Dispatched = 3 /\ worker_cycle = 1
    /\ \E r \in DOMAIN req :
           /\ Len(req[r].futs) >= 1
           /\ req[r].futs[1].url = WORKER_URLS[2]

OwnHits(r) == ConcatSeqs([i \in 1..Len(req[r].futs) |-> req[r].futs[i].hits])

\* C13 as stated: the endpoints of a query's partitions and its response do
\* not depend on the other queries, so two requests for the same query get
\* the same endpoint for the same partition and, when both succeed, the same
\* response.
C13_Independent ==
    \A r1, r2 \in DOMAIN req :
        /\ \A i \in 1..Len(req[r1].futs) :
               i <= Len(req[r2].futs) =>
                   req[r1].futs[i].url = req[r2].futs[i].url
        /\ (req[r1].resp.status = 200 /\ req[r2].resp.status = 200) =>
               req[r1].resp = req[r2].resp

\* C13 amended: the endpoints depend on the shared cursor, but the i-th call
\* of a query carries the i-th partition of the corpus, a 200 response is
\* the aggregate of the hits the query's own calls returned, and a 500
\* response of an accepted query comes only from a failed call of its own
\* or from an empty pool.
C13_OwnPartitionsAndResponse ==
    \A r \in DOMAIN req :
        /\ \A i \in 1..Len(req[r].futs) :
               req[r].futs[i].files =
                   slice_corpus(BATCH, CORPUS, Len(WORKER_URLS))[i]
        /\ req[r].resp.status = 200 => req[r].resp = aggregate(OwnHits(r))
        /\ (req[r].resp.status = 500 /\ req[r].q # <<>> /\ CORPUS # <<>>) =>
               (Raised(r) # {} \/ WORKER_URLS = <<>>)

\* Two answered queries whose first partitions went to different endpoints
\* and whose responses are the same non-empty list.
C13_Witness ==
    \E r1, r2 \in DOMAIN req :
        /\ req[r1].resp.status = 200 /\ req[r2].resp.status = 200
        /\ req[r1].resp.hits # <<>>
        /\ req[r1].resp = req[r2].resp
        /\ req[r1].futs # <<>> /\ req[r2].futs # <<>>
        /\ req[r1].futs[1].url # req[r2].futs[1].url

\* What the worker answers for each partition, in partition order.
AnswersInPartitionOrder(r) ==
    ConcatSeqs([i \in 1..Len(req[r].chunks) |->
                   batch_search(ALGO, disk, req[r].q, req[r].chunks[i]).hits])

\* C14: when every call of a query succeeds, the response (the hits in
\* their order, and total_hits) is the one fixed by the partitions' answers,
\* whatever the order in which the calls completed and were collected.
C14_CompletionOrder ==
    \A r \in DOMAIN req :
        (req[r].resp.status = 200 /\ req[r].futs # <<>>) =>
            /\ req[r].resp.hits =
                   aggregate(AnswersInPartitionOrder(r)).hits
            /\ req[r].resp.total_hits =
                   TotalCount(AnswersInPartitionOrder(r))

\* The second partition's answer was collected before the first one's, and
\* the two files tie on their count.
C14_Witness ==
    \E r \in DOMAIN req :
        /\ req[r].resp.status = 200
        /\ Len(req[r].collected) = 2
        /\ req[r].collected[1].file > req[r].collected[2].file
        /\ req[r].collected[1].count = req[r].collected[2].count
        /\ req[r].resp.hits = <<req[r].collected[2], req[r].collected[1]>>

\* C16: a query that is empty after trimming is answered 400, also when the
\* corpus is empty; a non-empty query on an empty corpus is answered 500
\* with an error body; in both cases no call of the query is dispatched.
C16_InputErrors ==
    \A r \in DOMAIN req :
        req[r].pc = "done" =>
            /\ req[r].q = <<>> =>
                   /\ req[r].resp = ErrorResponse(400)
                   /\ req[r].futs = <<>>
            /\ (req[r].q # <<>> /\ CORPUS = <<>>) =>
                   /\ req[r].resp = ErrorResponse(500)
                   /\ req[r].futs = <<>>
            /\ (req[r].q = <<>> \/ CORPUS = <<>>) =>
                   \A k \in 1..Len(queue) : queue[k][1] # r

\* On an empty corpus one query was answered 400 and the other 500.
C16_Witness ==
    /\ CORPUS = <<>>
    /\ \E r1, r2 \in DOMAIN req :
           /\ req[r1].pc = "done" /\ req[r1].q = <<>>
           /\ req[r1].resp.status = 400
           /\ req[r2].pc = "done" /\ req[r2].q # <<>>
           /\ req[r2].resp.status = 500 /\ req[r2].resp.error

\* C17: every partition the coordinator dispatches is non-empty, and under
\* the balanced split a query on a non-empty corpus none of whose calls hit
\* a network error or timeout is answered 200.
C17_NonEmptyPartitions ==
    \A r \in DOMAIN req :
        /\ \A i \in 1..Len(req[r].futs) : req[r].futs[i].files # <<>>
        /\ (BATCH = 0 /\ req[r].pc = "done" /\ req[r].futs # <<>>
              /\ \A i \in 1..Len(req[r].futs) :
                     batch_search(ALGO, disk, req[r].q, req[r].futs[i].files).status
                         = 200 \/ req[r].futs[i].state # "raised") =>
               req[r].resp.status = 200

EndpointsOf(r) == [i \in 1..Len(req[r].futs) |-> req[r].futs[i].url]

\* C18: under the balanced split a query whose dispatch loop has ended sent
\* exactly one partition to each endpoint of the pool.
C18_OnePartitionPerEndpoint ==
    \A r \in DOMAIN req :
        (BATCH = 0 /\ req[r].pc \in {"collect", "done"} /\ req[r].futs # <<>>) =>
            \A u \in 1..Len(WORKER_URLS) :
                Cardinality({i \in 1..Len(req[r].futs) :
                                req[r].futs[i].url = WORKER_URLS[u]}) = 1

Handled == {r \in DOMAIN req : req[r].pc \in {"dispatch", "collect"}}

\* C19: the in-flight gauge equals the number of requests being handled,
\* so it is 0 when none is: every start event is paired with one end event.
C19_StartEndPaired == metrics.inflight = Cardinality(Handled)

\* ------------------------------------------------------------------ partitioner claims
RECURSIVE Concat(_)
Concat(ss) == IF ss = <<>> THEN <<>> ELSE Head(ss) \o Concat(Tail(ss))

Positions(parts, f) ==
    {pk \in UNION {{<<p, k>> : k \in 1..Len(parts[p])} : p \in 1..Len(parts)} :
        parts[pk[1]][pk[2]] = f}

CeilDiv(a, b) == CHOOSE c \in 0..a : c * b >= a /\ (c = 0 \/ (c - 1) * b < a)

\* C3: with batch size 0 and at least one worker, slice_corpus returns exactly
\* worker_count partitions, corpus index i lands in partition i mod
\* worker_count, every corpus file is at exactly one position of exactly one
\* partition and nothing else is, and partition sizes differ by at most one.
C3_BalancedSplit ==
    (sliced.called /\ BATCH = 0 /\ Len(WORKER_URLS) >= 1) =>
        LET parts == sliced.parts
            n == Len(WORKER_URLS)
        IN  /\ Len(parts) = n
            /\ \A i \in 0..(Len(CORPUS) - 1) :
                   \E k \in 1..Len(parts[(i % n) + 1]) :
                       parts[(i % n) + 1][k] = CORPUS[i + 1]
            /\ \A i \in 1..Len(CORPUS) :
                   Cardinality(Positions(parts, CORPUS[i])) = 1
            /\ Len(Concat(parts)) = Len(CORPUS)
            /\ \A p, q \in 1..n : Len(parts[p]) - Len(parts[q]) <= 1

C3_Witness ==
    /\ sliced.called /\ BATCH = 0
    /\ Len(WORKER_URLS) = 3 /\ Len(CORPUS) = 7
    /\ {Len(sliced.parts[p]) : p \in 1..3} = {2, 3}

\* C4: with batch size b > 0, slice_corpus returns ceil(len(corpus)/b)
\* partitions whatever the worker count; their concatenation is the corpus,
\* every partition but the last has exactly b files and the last has
\* between 1 and b.
C4_FixedSplit ==
    (sliced.called /\ BATCH > 0) =>
        LET parts == sliced.parts
            c == Len(parts)
        IN  /\ c = CeilDiv(Len(CORPUS), BATCH)
            /\ Concat(parts) = CORPUS
            /\ \A t \in 1..(c - 1) : Len(parts[t]) = BATCH
            /\ c > 0 => (Len(parts[c]) >= 1 /\ Len(parts[c]) <= BATCH)

C4_Witness ==
    /\ sliced.called /\ BATCH = 2 /\ Len(CORPUS) = 5
    /\ Len(WORKER_URLS) # 3
    /\ [t \in 1..Len(sliced.parts) |-> Len(sliced.parts[t])] = <<2, 2, 1>>

\* C15: slice_corpus on an empty corpus returns an empty partition list,
\* for every worker count and every batch size.
C15_EmptyCorpus ==
    (sliced.called /\ CORPUS = <<>>) => sliced.parts = <<>>

\* ------------------------------------------------------------------ liveness claims
Accepted(r) == req[r].pc \in {"dispatch", "collect"}

Answered(r) == req[r].pc = "done" /\ req[r].resp.status \in {200, 500}

\* C20: under fair scheduling every accepted query is eventually answered
\* 200 or 500, and an answer once given is never replaced by another.
C20_ResponseLiveness ==
    /\ \A r \in 1..MaxReq : Accepted(r) ~> Answered(r)
    /\ [][\A r \in DOMAIN req :
             req[r].pc = "done" =>
                 (req'[r].pc = "done" /\ req'[r].resp = req[r].resp)]_vars

\* A query with more partitions than pool threads was answered 200 after
\* the other query had failed and while a call of that one still runs.
C20_Witness ==
    \E r1, r2 \in DOMAIN req :
        /\ MAX_PARALLEL = 1 /\ Len(req[r1].futs) = 2
        /\ Answered(r1) /\ req[r1].resp.status = 200
        /\ Answered(r2) /\ req[r2].resp.status = 500
        /\ \E i \in 1..Len(req[r2].futs) : req[r2].futs[i].state = "running"

====
